---- MODULE Spec2Model ----
(***************************************************************************)
(* usbioctl: set/reset USB-IO I/O pins individually (src/usbioctl.c).      *)
(*                                                                         *)
(* The program is one sequential process.  Its state is the locals of      *)
(* main, usbio_lookup, usbio_open and usbio_check, the global seqno, the   *)
(* process's descriptor table, and logs of the system calls it made on     *)
(* device nodes (open, write, read).  The outcome of every system call     *)
(* (open, ioctl, write) is chosen by the environment.                      *)
(***************************************************************************)
EXTENDS Integers, Sequences, FiniteSets, TLC

VARIABLES
    opts,       \* what getopt(argc, argv, "f:p:") returns, call by call
    nargs,      \* argc - optind: the number of non-option arguments
    value,      \* atoi(argv[0]) of the first non-option argument
    optpos,     \* number of options getopt has returned so far
    f_flag,     \* main: f_flag
    devname,    \* main: devname
    port,       \* main: port
    data,       \* main: data
    fd,         \* main: fd
    i,          \* usbio_lookup: i
    ofd,        \* usbio_open: fd
    udi,        \* usbio_check: udi (vendor and product of the node)
    cret,       \* usbio_check: ret, what the ioctl returned
    chk,        \* the value usbio_check returned to usbio_open
    fdtab,      \* the process's open descriptors on device nodes
    opencalls,  \* log: the device names passed to open(), in order
    written,    \* log: the reports handed to write() that write() accepted
    reads,      \* log: the read() calls made on the device
    ret,        \* usbio_write2: ret
    seqno,      \* global: seqno
    pc,         \* position of the process
    status,     \* exit status, -1 while the process runs
    diag        \* the diagnostic that accompanied the exit

vars == <<opts, nargs, value, optpos, f_flag, devname, port, data, fd, i, ofd,
          udi, cret, chk, fdtab, opencalls, written, reads, ret, seqno, pc, status,
          diag>>

----------------------------------------------------------------------------
(* Bounds of the model *)

MaxOpts == 2        \* options on the command line
MaxArgs == 2        \* non-option arguments on the command line
MaxCalls == 258     \* calls of usbio_write2 made by the exchange driver

(* Program constants *)

DEFAULT_PORT == 2
USBIO2_RW == 32           \* 0x20
USBIO_PORT2_MASK == 15    \* 0x0f
ReportLen == 64
NumCandidates == 10

Byte == 0 .. 255

(* usbio_models[]: the entries outside #if 0 *)
usbio_models ==
    << [vendor |-> 4946, product |-> 288, protocol_version |-> 2],   \* 0x1352, 0x0120
       [vendor |-> 4946, product |-> 289, protocol_version |-> 2] >> \* 0x1352, 0x0121

----------------------------------------------------------------------------
(* Inputs *)

NoDev == <<"", 0>>                      \* strlcpy(devname, "", ...)
DevName(n) == <<"/dev/uhid", n>>        \* snprintf(devname, ..., "/dev/uhid%d", i)

FDevs == {DevName(3), <<"/dev/uhidev", 0>>}
PortArgs == 0 .. 3                      \* atoi(optarg) of -p
Values == {15, 427, -1}                 \* atoi(argv[0]): 0x0f, 0x1ab, -1

OptSet ==
    {[ch |-> "f", dev |-> d, num |-> 0] : d \in FDevs}
    \cup {[ch |-> "p", dev |-> NoDev, num |-> n] : n \in PortArgs}
    \cup {[ch |-> "?", dev |-> NoDev, num |-> 0]}

OptSeqs == UNION {[1 .. n -> OptSet] : n \in 0 .. MaxOpts}

Vendors == {3070, 4946, 1240}           \* 0x0bfe, 0x1352, 0x04d8
Products == {4099, 256, 288, 289, 63}   \* 0x1003, 0x0100, 0x0120, 0x0121, 0x003f
DeviceIds == [vendor : Vendors, product : Products]
NoUdi == [vendor |-> 0, product |-> 0]

WriteRets == {-1, 0, 32, ReportLen}     \* write(): error, nothing, short, full
XData == {0, 10, 255}

----------------------------------------------------------------------------
(* Pure functions *)

RECURSIVE BitAnd(_, _)
BitAnd(x, y) ==
    IF x = 0 \/ y = 0 THEN 0
    ELSE (x % 2) * (y % 2) + 2 * BitAnd(x \div 2, y \div 2)

ToUChar(n) == n % 256

RECURSIVE CheckFrom(_, _)
CheckFrom(u, k) ==
    IF k > Len(usbio_models) THEN -1
    ELSE IF u.vendor = usbio_models[k].vendor /\ u.product = usbio_models[k].product
         THEN usbio_models[k].protocol_version
         ELSE CheckFrom(u, k + 1)

usbio_check_bad(u) ==
    IF \E k \in 1 .. Len(usbio_models) : u.vendor = usbio_models[k].vendor
    THEN 2 ELSE -1

usbio_check(u) == CheckFrom(u, 1)

MakeReport_bad(p, d, s) ==
    [n \in 0 .. ReportLen - 1 |->
        IF n = 0 THEN USBIO2_RW
        ELSE IF n = 1 THEN ToUChar(p + 1)
        ELSE IF n = 2 THEN d
        ELSE IF n = ReportLen - 1 THEN s
        ELSE 0]

MakeReport(p, d, s) ==
    [n \in 0 .. ReportLen - 1 |->
        IF n = 0 THEN USBIO2_RW
        ELSE IF n = 1 THEN ToUChar(p)
        ELSE IF n = 2 THEN d
        ELSE IF n = ReportLen - 1 THEN s
        ELSE 0]

LowestFreeFd ==
    CHOOSE n \in 3 .. 3 + Cardinality(fdtab) :
        /\ \A e \in fdtab : e.fd # n
        /\ \A m \in 3 .. n - 1 : \E e \in fdtab : e.fd = m

----------------------------------------------------------------------------
Init ==
    /\ opts \in OptSeqs
    /\ nargs \in 0 .. MaxArgs
    /\ value \in Values
    /\ optpos = 0
    /\ f_flag = 0
    /\ devname = NoDev
    /\ port = DEFAULT_PORT
    /\ data = 0
    /\ fd = -1
    /\ i = 0
    /\ ofd = -1
    /\ udi = NoUdi
    /\ cret = 0
    /\ chk = -1
    /\ fdtab = {}
    /\ opencalls = << >>
    /\ written = << >>
    /\ reads = << >>
    /\ ret = 0
    /\ seqno = 0
    /\ pc = "getopt"
    /\ status = -1
    /\ diag = "none"

Exit(code, msg) ==
    /\ pc' = "exit"
    /\ status' = code
    /\ diag' = msg

usage == Exit(2, "usage")

----------------------------------------------------------------------------
(* main: the getopt loop *)

GetoptF ==
    /\ pc = "getopt"
    /\ optpos < Len(opts)
    /\ opts[optpos + 1].ch = "f"
    /\ f_flag' = 1
    /\ devname' = opts[optpos + 1].dev
    /\ optpos' = optpos + 1
    /\ UNCHANGED <<opts, nargs, value, cret, port, data, fd, i, ofd, udi, chk, fdtab,
                   opencalls, written, reads, ret, seqno, pc, status, diag>>

GetoptP ==
    /\ pc = "getopt"
    /\ optpos < Len(opts)
    /\ opts[optpos + 1].ch = "p"
    /\ optpos' = optpos + 1
    /\ LET val == opts[optpos + 1].num IN
         IF val # 1 /\ val # 2
         THEN usage /\ port' = port
         ELSE port' = val /\ UNCHANGED <<pc, status, diag>>
    /\ UNCHANGED <<opts, nargs, value, cret, f_flag, devname, data, fd, i, ofd, udi,
                   chk, fdtab, opencalls, written, reads, ret, seqno>>

(* getopt returned '?': the switch has the cases 'f' and 'p' and a statement *)
(* labelled "defailt", which is no case of the switch; nothing is executed.  *)
GetoptUnknown ==
    /\ pc = "getopt"
    /\ optpos < Len(opts)
    /\ opts[optpos + 1].ch = "?"
    /\ optpos' = optpos + 1
    /\ UNCHANGED <<opts, nargs, value, cret, f_flag, devname, port, data, fd, i, ofd,
                   udi, chk, fdtab, opencalls, written, reads, ret, seqno, pc,
                   status, diag>>

GetoptEnd_bad ==
    /\ pc = "getopt"
    /\ optpos = Len(opts)
    /\ IF nargs < 1
       THEN usage /\ UNCHANGED <<data, i>>
       ELSE /\ data' = ToUChar(value)
            /\ i' = 0
            /\ pc' = "open"
            /\ UNCHANGED <<status, diag>>
    /\ UNCHANGED <<opts, nargs, value, cret, optpos, f_flag, devname, port, fd, ofd,
                   udi, chk, fdtab, opencalls, written, reads, ret, seqno>>

(* getopt returned -1: the argument count, the value, and the choice between *)
(* usbio_open(devname) and usbio_lookup()                                    *)
GetoptEnd ==
    /\ pc = "getopt"
    /\ optpos = Len(opts)
    /\ IF nargs # 1
       THEN usage /\ UNCHANGED <<data, i>>
       ELSE /\ data' = ToUChar(value)
            /\ i' = 0
            /\ pc' = "open"
            /\ UNCHANGED <<status, diag>>
    /\ UNCHANGED <<opts, nargs, value, cret, optpos, f_flag, devname, port, fd, ofd,
                   udi, chk, fdtab, opencalls, written, reads, ret, seqno>>

----------------------------------------------------------------------------
(* usbio_open, usbio_check, usbio_lookup *)

(* usbio_open returned -1 to its caller: main under -f, else usbio_lookup *)
OpenFailed ==
    IF f_flag = 1
    THEN Exit(1, "cantopen") /\ i' = i
    ELSE i' = i + 1 /\ pc' = "open" /\ UNCHANGED <<status, diag>>

Open ==
    /\ pc = "open"
    /\ f_flag = 1 \/ i < NumCandidates
    /\ LET name == IF f_flag = 1 THEN devname ELSE DevName(i) IN
         /\ opencalls' = Append(opencalls, name)
         /\ \E ok \in BOOLEAN :
              IF ok
              THEN /\ ofd' = LowestFreeFd
                   /\ fdtab' = fdtab \cup {[fd |-> LowestFreeFd, node |-> name]}
                   /\ pc' = "ioctl"
                   /\ UNCHANGED <<i, status, diag>>
              ELSE /\ ofd' = -1
                   /\ fdtab' = fdtab
                   /\ OpenFailed
    /\ UNCHANGED <<opts, nargs, value, cret, optpos, f_flag, devname, port, data, fd,
                   udi, chk, written, reads, ret, seqno>>

Ioctl_bad ==
    /\ pc = "ioctl"
    /\ \E ok \in BOOLEAN, u \in DeviceIds :
         IF ok
         THEN udi' = u /\ cret' = 0 /\ pc' = "match"
         ELSE udi' = NoUdi /\ cret' = -1 /\ pc' = "match"
    /\ UNCHANGED <<status, diag>>
    /\ UNCHANGED <<opts, nargs, value, optpos, f_flag, devname, port, data, fd,
                   i, ofd, chk, fdtab, opencalls, written, reads, ret, seqno>>

(* usbio_check: ioctl(fd, USB_GET_DEVICEINFO, &udi) *)
Ioctl ==
    /\ pc = "ioctl"
    /\ \E ok \in BOOLEAN, u \in DeviceIds :
         IF ok
         THEN udi' = u /\ cret' = 0 /\ pc' = "match" /\ UNCHANGED <<status, diag>>
         ELSE udi' = udi /\ cret' = -1 /\ Exit(1, "ioctl")
    /\ UNCHANGED <<opts, nargs, value, optpos, f_flag, devname, port, data, fd,
                   i, ofd, chk, fdtab, opencalls, written, reads, ret, seqno>>

(* usbio_check: the loop over usbio_models and the return *)
Match ==
    /\ pc = "match"
    /\ chk' = usbio_check(udi)
    /\ pc' = "checked"
    /\ UNCHANGED <<opts, nargs, value, cret, optpos, f_flag, devname, port, data, fd,
                   i, ofd, udi, fdtab, opencalls, written, reads, ret, seqno,
                   status, diag>>

OpenTest_bad ==
    /\ pc = "checked"
    /\ fd' = ofd /\ pc' = "write1"
    /\ udi' = NoUdi
    /\ chk' = -1
    /\ UNCHANGED <<opts, nargs, value, cret, optpos, f_flag, devname, port, data, i,
                   ofd, fdtab, opencalls, written, reads, ret, seqno, status,
                   diag>>

(* usbio_open: if (usbio_check(fd) != -1) return fd; *)
OpenTest ==
    /\ pc = "checked"
    /\ IF chk # -1
       THEN fd' = ofd /\ pc' = "write1"
       ELSE fd' = fd /\ pc' = "close"
    /\ udi' = NoUdi
    /\ chk' = -1
    /\ UNCHANGED <<opts, nargs, value, cret, optpos, f_flag, devname, port, data, i,
                   ofd, fdtab, opencalls, written, reads, ret, seqno, status,
                   diag>>

CloseNoMatch_bad ==
    /\ pc = "close"
    /\ fdtab' = fdtab
    /\ OpenFailed
    /\ UNCHANGED <<opts, nargs, value, cret, optpos, f_flag, devname, port, data, fd,
                   ofd, udi, chk, opencalls, written, reads, ret, seqno>>

(* usbio_open: close(fd); return -1; *)
CloseNoMatch ==
    /\ pc = "close"
    /\ fdtab' = {e \in fdtab : e.fd # ofd}
    /\ OpenFailed
    /\ UNCHANGED <<opts, nargs, value, cret, optpos, f_flag, devname, port, data, fd,
                   ofd, udi, chk, opencalls, written, reads, ret, seqno>>

(* usbio_lookup: the loop ended without a device *)
LookupFail ==
    /\ pc = "open"
    /\ f_flag = 0
    /\ i = NumCandidates
    /\ Exit(1, "notfound")
    /\ UNCHANGED <<opts, nargs, value, cret, optpos, f_flag, devname, port, data, fd,
                   i, ofd, udi, chk, fdtab, opencalls, written, reads, ret,
                   seqno>>

----------------------------------------------------------------------------
(* usbio_write2 *)

usbio_write2_skip0(f, p, d, next) ==
    \E r \in WriteRets :
        /\ ret' = r
        /\ reads' = reads
        /\ IF r = -1
           THEN Exit(1, "write") /\ UNCHANGED <<written, seqno>>
           ELSE /\ written' = Append(written, [fd |-> f, buf |-> MakeReport(p, d, seqno)])
                /\ seqno' = IF r # 0 THEN (seqno + 1) % 256 ELSE seqno
                /\ pc' = next
                /\ UNCHANGED <<status, diag>>

usbio_write2_poll(f, p, d, next) ==
    \E r \in WriteRets :
        /\ ret' = r
        /\ IF r = -1
           THEN Exit(1, "write") /\ UNCHANGED <<written, seqno, reads>>
           ELSE /\ written' = Append(written, [fd |-> f, buf |-> MakeReport(p, d, seqno)])
                /\ \E n \in {0, ReportLen} :
                     reads' = Append(reads, [fd |-> f, n |-> n, seq |-> seqno])
                /\ seqno' = (seqno + 1) % 256
                /\ pc' = next
                /\ UNCHANGED <<status, diag>>

(* The report is built and handed to write(); the read loop that follows is  *)
(* inside #if 0 and is no part of the program, so no read() is ever made;    *)
(* seqno is an unsigned char.  "next" is where the caller continues.         *)
usbio_write2(f, p, d, next) ==
    \E r \in WriteRets :
        /\ ret' = r
        /\ reads' = reads
        /\ IF r = -1
           THEN Exit(1, "write") /\ UNCHANGED <<written, seqno>>
           ELSE /\ written' = Append(written, [fd |-> f, buf |-> MakeReport(p, d, seqno)])
                /\ seqno' = (seqno + 1) % 256
                /\ pc' = next
                /\ UNCHANGED <<status, diag>>

----------------------------------------------------------------------------
(* main: the two writes, the close and the exit *)

Write1 ==
    /\ pc = "write1"
    /\ LET d == IF port = 2 THEN BitAnd(data, USBIO_PORT2_MASK) ELSE data IN
         /\ data' = d
         /\ usbio_write2(fd, port, d, "sleep")
    /\ UNCHANGED <<opts, nargs, value, cret, optpos, f_flag, devname, port, fd, i,
                   ofd, udi, chk, fdtab, opencalls>>

Sleep ==
    /\ pc = "sleep"
    /\ pc' = "write2"
    /\ UNCHANGED <<opts, nargs, value, cret, optpos, f_flag, devname, port, data, fd,
                   i, ofd, udi, chk, fdtab, opencalls, written, reads, ret,
                   seqno, status, diag>>

Write2_bad ==
    /\ pc = "write2"
    /\ LET d == IF port = 2 THEN BitAnd(data, USBIO_PORT2_MASK) ELSE data IN
         /\ data' = d
         /\ usbio_write2(fd, port, d, "close_fd")
    /\ UNCHANGED <<opts, nargs, value, cret, optpos, f_flag, devname, port, fd, i,
                   ofd, udi, chk, fdtab, opencalls>>

Write2 ==
    /\ pc = "write2"
    /\ LET d == IF port = 2 THEN BitAnd(0, USBIO_PORT2_MASK) ELSE 0 IN
         /\ data' = d
         /\ usbio_write2(fd, port, d, "close_fd")
    /\ UNCHANGED <<opts, nargs, value, cret, optpos, f_flag, devname, port, fd, i,
                   ofd, udi, chk, fdtab, opencalls>>

Close ==
    /\ pc = "close_fd"
    /\ fdtab' = {e \in fdtab : e.fd # fd}
    /\ Exit(0, "none")
    /\ UNCHANGED <<opts, nargs, value, cret, optpos, f_flag, devname, port, data, fd,
                   i, ofd, udi, chk, opencalls, written, reads, ret, seqno>>

----------------------------------------------------------------------------
Next ==
    \/ GetoptF
    \/ GetoptP
    \/ GetoptUnknown
    \/ GetoptEnd
    \/ Open
    \/ Ioctl
    \/ Match
    \/ OpenTest
    \/ CloseNoMatch
    \/ LookupFail
    \/ Write1
    \/ Sleep
    \/ Write2
    \/ Close

Spec == Init /\ [][Next]_vars

----------------------------------------------------------------------------
(* The exchange driver: usbio_write2 called again and again on one open     *)
(* handle, from the state the program starts in (seqno = 0), so that the    *)
(* counter takes every value and wraps.                                     *)

InitX ==
    /\ opts = << >>
    /\ nargs = 1
    /\ value \in XData
    /\ optpos = 0
    /\ f_flag = 0
    /\ devname = NoDev
    /\ port \in {1, 2}
    /\ data = value
    /\ fd = 3
    /\ i = 0
    /\ ofd = 3
    /\ udi = NoUdi
    /\ cret = 0
    /\ chk = -1
    /\ fdtab = {[fd |-> 3, node |-> DevName(0)]}
    /\ opencalls = <<DevName(0)>>
    /\ written = << >>
    /\ reads = << >>
    /\ ret = 0
    /\ seqno = 0
    /\ pc = "xcall"
    /\ status = -1
    /\ diag = "none"

XCall ==
    /\ pc = "xcall"
    /\ Len(written) < MaxCalls
    /\ usbio_write2(fd, port, data, "xcall")
    /\ UNCHANGED <<opts, nargs, value, cret, optpos, f_flag, devname, port, data, fd,
                   i, ofd, udi, chk, fdtab, opencalls>>

NextX == Next \/ XCall

SpecExchange == (Init \/ InitX) /\ [][NextX]_vars

----------------------------------------------------------------------------
(* Properties *)

Exchanged == Len(written') = Len(written) + 1
LastReport == written'[Len(written')]

(* C1: the sequence counter starts at 0 and stays a byte; every call of     *)
(* usbio_write2 that returns (a report was accepted by write(), whatever    *)
(* count write() returned) adds exactly 1 modulo 256 to it, and no other    *)
(* step changes it.                                                         *)
T_C1 ==
    /\ seqno = 0
    /\ [](seqno \in Byte)
    /\ [][/\ Exchanged => seqno' = (seqno + 1) % 256
          /\ written' = written => seqno' = seqno]_vars

W_C1 == Len(written) = 256 /\ seqno = 0 /\ ret = 0

(* C2: a report written for port 1 or 2 has byte 0 = 0x20, byte 1 = the     *)
(* port, byte 2 = the data byte passed, byte 63 = the sequence counter at   *)
(* the time of the call, and bytes 3..62 zero.                              *)
T_C2 ==
    [][Exchanged /\ port \in {1, 2} =>
         /\ DOMAIN LastReport.buf = 0 .. 63
         /\ LastReport.buf[0] = 32
         /\ LastReport.buf[1] = port
         /\ LastReport.buf[2] = data'
         /\ LastReport.buf[63] = seqno
         /\ \A n \in 3 .. 62 : LastReport.buf[n] = 0]_vars

W_C2 ==
    \E k \in DOMAIN written :
        /\ written[k].buf[1] = 1
        /\ written[k].buf[2] = 10
        /\ written[k].buf[63] = 255

(* C3 (as amended): after a report is sent the exchange makes no read at    *)
(* all: no reply is awaited, discarded or matched, and the exchange is      *)
(* complete, the counter incremented, as soon as write() has returned       *)
(* without error.                                                           *)
T_C3 ==
    /\ reads = << >>
    /\ seqno = Len(written) % 256

W_C3 == Len(written) = 1 /\ seqno = 1 /\ reads = << >> /\ pc = "sleep"

(* C3 (as stated): an exchange completes only when a reply whose byte 63    *)
(* equals the sequence byte sent has arrived or a zero-length read has      *)
(* occurred.                                                                *)
CE_C3 ==
    \A k \in DOMAIN written :
        seqno # written[k].buf[63] =>
            \E r \in DOMAIN reads :
                reads[r].n = 0 \/ reads[r].seq = written[k].buf[63]

(* C4: a run that exits with status 0 has written exactly two reports, the  *)
(* first with the value reduced to a byte (and to its low nibble on port 2) *)
(* and sequence number s, the second with data 0 on the same port and       *)
(* sequence number s+1 mod 256, and has closed the handle; a run with valid *)
(* arguments that obtained a matching device and met no failing syscall     *)
(* exits with status 0 and no other.                                        *)
ExpectedData == IF port = 2 THEN (value % 256) % 16 ELSE value % 256

UsageError ==
    \/ nargs # 1
    \/ \E k \in DOMAIN opts : opts[k].ch = "p" /\ opts[k].num \notin {1, 2}

T_C4 ==
    /\ status = 0 =>
         /\ Len(written) = 2
         /\ written[1].buf[1] = port /\ written[2].buf[1] = port
         /\ written[1].buf[2] = ExpectedData
         /\ written[2].buf[2] = 0
         /\ written[2].buf[63] = (written[1].buf[63] + 1) % 256
         /\ written[1].fd = written[2].fd
         /\ fdtab = {}
         /\ ~UsageError /\ ret # -1 /\ cret # -1
    /\ (pc = "exit" /\ ~UsageError /\ fd # -1 /\ ret # -1) => status = 0

W_C4 ==
    /\ status = 0
    /\ value = 15 /\ port = 2
    /\ written[1].buf[2] = 15 /\ written[2].buf[2] = 0


AllowList == {<<4946, 288>>, <<4946, 289>>}     \* as usbio_models is documented
Listed(u) == <<u.vendor, u.product>> \in AllowList

(* C5: without -f the candidates /dev/uhid0 .. /dev/uhid9 are opened in     *)
(* ascending order; the loop moves to the next candidate only after an open *)
(* failure or a non-matching identity; the first candidate that opens and   *)
(* matches is returned and no further candidate is tried; when all ten have *)
(* failed the process exits with status 1 and no report is written.         *)
T_C5 ==
    /\ [](f_flag = 0 =>
            /\ Len(opencalls) <= 10
            /\ \A k \in DOMAIN opencalls : opencalls[k] = <<"/dev/uhid", k - 1>>
            /\ pc \in {"ioctl", "match", "checked", "close"} => Len(opencalls) = i + 1
            /\ pc = "open" => Len(opencalls) = i
            /\ fd # -1 =>
                 /\ Len(opencalls) = i + 1
                 /\ fdtab \subseteq {[fd |-> fd, node |-> <<"/dev/uhid", i>>]}
            /\ diag = "notfound" =>
                 /\ status = 1
                 /\ Len(opencalls) = 10
                 /\ written = << >>
                 /\ fdtab = {})
    /\ [][f_flag = 0 =>
            /\ (pc = "checked" /\ Listed(udi)) =>
                   fd' = ofd /\ pc' = "write1" /\ i' = i
            /\ (pc = "checked" /\ ~Listed(udi)) =>
                   fd' = -1 /\ pc' = "close"
            /\ i' # i =>
                   /\ i' = i + 1
                   /\ pc = "open" \/ (pc = "close" /\ fd = -1)
            /\ (pc = "open" /\ Len(opencalls) = 10) =>
                   status' = 1 /\ diag' = "notfound"]_vars

W_C5 ==
    /\ f_flag = 0
    /\ pc = "write1"
    /\ i = 4
    /\ fd # -1

(* C6: usbio_check, once the identity query has succeeded, returns the      *)
(* protocol version 2 for exactly the pairs of the allow-list and -1 for    *)
(* every other pair.                                                        *)
T_C6 ==
    pc = "checked" => chk = (IF Listed(udi) THEN 2 ELSE -1)

W_C6 ==
    /\ pc = "checked"
    /\ udi.vendor = 4946 /\ udi.product = 63
    /\ chk = -1

(* C7: a command line with a number of non-option arguments other than one, *)
(* or a -p value other than 1 or 2, never gets past option parsing: it      *)
(* prints usage and exits with status 2, no device node is opened and no    *)
(* report is written.                                                       *)
T_C7 ==
    UsageError =>
        /\ pc \in {"getopt", "exit"}
        /\ pc = "exit" => status = 2 /\ diag = "usage"
        /\ opencalls = << >>
        /\ written = << >>
        /\ fdtab = {}

W_C7 ==
    /\ nargs = 2
    /\ \A k \in DOMAIN opts : opts[k].ch = "p" => opts[k].num \in {1, 2}
    /\ pc = "exit"
    /\ status = 2

(* C8: a failing identity ioctl or a write returning -1 ends the process    *)
(* with status 1 in that very step: the failed write logs no report and     *)
(* leaves the counter alone, and after the exit nothing more happens.       *)
T_C8 ==
    /\ []((ret = -1 \/ cret = -1) => pc = "exit" /\ status = 1)
    /\ [][/\ (pc = "ioctl" /\ cret' = -1) =>
                /\ pc' = "exit" /\ status' = 1
                /\ opencalls' = opencalls /\ written' = written
          /\ ret' = -1 =>
                /\ pc' = "exit" /\ status' = 1
                /\ seqno' = seqno /\ written' = written
                /\ opencalls' = opencalls
          /\ pc # "exit"]_vars

W_C8 ==
    /\ ret = -1
    /\ Len(written) = 1
    /\ seqno = 1
    /\ pc = "exit"

(* C9: at most one device handle is open at any time; no handle is open     *)
(* when a node is about to be opened; once main holds a handle no node is   *)
(* opened any more, every report goes to that handle while it is open, and  *)
(* the handle is closed before the exit with status 0.                      *)
T_C9 ==
    /\ [](/\ Cardinality(fdtab) <= 1
          /\ pc = "open" => fdtab = {}
          /\ \A k \in DOMAIN written : fd # -1 /\ written[k].fd = fd
          /\ status = 0 => fdtab = {})
    /\ [][/\ fd # -1 => opencalls' = opencalls
          /\ Exchanged => \E e \in fdtab : e.fd = LastReport.fd]_vars

W_C9 ==
    /\ Len(opencalls) = 3
    /\ Cardinality(fdtab) = 1
    /\ Len(written) = 2
    /\ f_flag = 0

(* C10: once getopt has returned '?' for an unknown option the program      *)
(* prints usage and exits with status 2; it opens no device and writes no   *)
(* report.                                                                  *)
CE_C10 ==
    (\E k \in 1 .. optpos : opts[k].ch = "?") =>
        /\ pc \in {"getopt", "exit"}
        /\ pc = "exit" => status = 2
        /\ opencalls = << >>
        /\ written = << >>

====
